---- MODULE Spec2Model ----
(***************************************************************************)
(* Research Paper Analyzer: the Document-Analysis API (api/main.py) and    *)
(* the GROBID processor with its on-disk Paper Store                       *)
(* (src/core/processor.py), as a state machine.                            *)
(*                                                                         *)
(* Modelling conventions                                                   *)
(*  - uuid4() is a fresh identifier: the k-th identifier generated is k.   *)
(*  - A filename is a sequence of one-character strings.                   *)
(*  - PDF bytes are abstract values; only len() and md5() read them.       *)
(*  - datetime.now().isoformat() is a tick of a clock that advances with   *)
(*    every record stored; ISO strings of one length order as the ticks.   *)
(*  - time.time() differences (processing_time) are not modelled.          *)
(*  - A handler runs without interleaving between two awaits; upload_pdf   *)
(*    awaits file.read() and is therefore split in two steps.              *)
(***************************************************************************)
EXTENDS Integers, Sequences, FiniteSets, TLC

\* Bound: number of document identifiers uuid4() hands out in a run.
MaxUploads == 2

\* Bound: number of direct process_pdf calls in a run of the processor alone.
MaxCalls == 2

\* src/config.py: max_file_size
max_file_size == 50 * 1024 * 1024

\* src/schemas.py: DocumentStatus
PROCESSING == "processing"
COMPLETED == "completed"
FAILED == "failed"

(***************************************************************************)
(* Inputs                                                                  *)
(***************************************************************************)
NameA == <<"a", ".", "p", "d", "f">>
NameASpace == <<"a", " ", ".", "p", "d", "f">>
NameLong == <<"b", "b", "b", "b", "b", "b", "b", "b", "b", "b", "b", "b",
              "b", "b", "b", "b", "b", ".", "p", "d", "f">>
NameTxt == <<"a", ".", "t", "x", "t">>
NameUpper == <<"a", ".", "P", "D", "F">>

Filenames == {NameA, NameASpace, NameLong, NameTxt, NameUpper}

\* Three PDF byte strings: an empty one, one of exactly the maximum size and
\* one a byte larger.
PdfContents == {"empty", "atmax", "overmax"}

\* len(pdf_content)
len(pdf_content) ==
  CASE pdf_content = "empty" -> 0
    [] pdf_content = "atmax" -> max_file_size
    [] pdf_content = "overmax" -> max_file_size + 1

\* An Optional[int] is <<>> (None) or <<n>>.
None == <<>>

\* UploadFile.size: the number of bytes the multipart parser wrote to the
\* file, or None for an UploadFile built without a size.
SizesOf(pdf_content) == {None, <<len(pdf_content)>>}

\* bool(x) of an Optional[int]
truthy(x) == x # None /\ x[1] # 0

\* dict.get(key, default) on a record
Get(rec, key, default) == IF key \in DOMAIN rec THEN rec[key] ELSE default

\* dict.update / {**a, **b}: the later mapping wins
update(a, b) == b @@ a

\* str.endswith('.pdf')
endswith_pdf(filename) ==
  /\ Len(filename) >= 4
  /\ SubSeq(filename, Len(filename) - 3, Len(filename)) = <<".", "p", "d", "f">>

(***************************************************************************)
(* State                                                                   *)
(***************************************************************************)
VARIABLES
  processing_status,  \* api/main.py: dict doc_id -> DocumentStatus
  documents,          \* api/main.py: dict doc_id -> record, in insertion order
  background_tasks,   \* tasks added by add_task and not yet run
  reading,            \* upload_pdf calls suspended at `await file.read()`
  next_id,            \* the next identifier uuid4() returns
  now,                \* datetime.now()
  store,              \* Paper Store: paper_id -> contents of data.json
  calls,              \* the process_pdf invocations so far, in order
  http,               \* the last HTTP response sent: endpoint and status code
  colpali_model,      \* core/colpali.py: self.colpali_model
  colpali_processor,  \* core/colpali.py: self.colpali_processor
  points,             \* the Qdrant collection: point id -> payload
  indexed,            \* paper_id -> the PDF last upserted under it
  out,                \* what the last ColPaliSearcher call returned or raised
  grobid_response,    \* core/processor.py: None, or the TEI of a 200 response
  parsed,             \* None, or what _extract_text_content made of it
  dash                \* frontend/streamlit_app.py: a run of upload_tab

\* The state of api/main.py and of the Paper Store.
api_vars == <<processing_status, documents, background_tasks, reading, next_id,
              now, store, calls, http>>

\* The state of a ColPaliSearcher and its collection.
searcher_vars == <<colpali_model, colpali_processor, points, indexed, out>>

\* A TEI document being parsed.
parser_vars == <<grobid_response, parsed>>

\* The dashboard.
dashboard_vars == <<dash>>

vars == <<processing_status, documents, background_tasks, reading, next_id,
          now, store, calls, http,
          colpali_model, colpali_processor, points, indexed, out,
          grobid_response, parsed, dash>>

DocIds == 1..MaxUploads

\* `doc_id in documents`
InDocuments(doc_id) == \E i \in 1..Len(documents) : documents[i].document_id = doc_id

\* documents[doc_id]
DocData(doc_id) ==
  documents[CHOOSE i \in 1..Len(documents) : documents[i].document_id = doc_id]

\* documents[doc_id] = rec: a new key goes last, an old key keeps its place
SetDocument(docs, rec) ==
  IF \E i \in 1..Len(docs) : docs[i].document_id = rec.document_id
  THEN [i \in 1..Len(docs) |->
          IF docs[i].document_id = rec.document_id THEN rec ELSE docs[i]]
  ELSE Append(docs, rec)

\* del documents[doc_id]
DelDocument(docs, doc_id) ==
  LET Keep(rec) == rec.document_id # doc_id IN SelectSeq(docs, Keep)

\* del processing_status[doc_id]
DelKey(f, k) == [x \in DOMAIN f \ {k} |-> f[x]]

\* processing_status[doc_id] = status
SetKey(f, k, v) == [x \in DOMAIN f \cup {k} |-> IF x = k THEN v ELSE f[x]]

\* A response, as far as the state keeps it; the bodies are status_response,
\* list_response and health_response below.
Response(op, code) == [op |-> op, code |-> code]

NoResponse == Response("none", 0)

\* What `out` holds before any ColPaliSearcher call.
NoCall ==
  [op |-> "none", raised |-> FALSE, value |-> <<>>, entered |-> FALSE,
   at |-> "none", reached |-> FALSE, batches |-> 0, embedded |-> 0]

\* The module state of api/main.py and an empty storage directory.
InitApi ==
  /\ processing_status = <<>>
  /\ documents = <<>>
  /\ background_tasks = {}
  /\ reading = {}
  /\ next_id = 1
  /\ now = 1
  /\ store = <<>>
  /\ calls = <<>>
  /\ http = NoResponse

\* ColPaliSearcher.__init__ on a Qdrant instance without the collection:
\* nothing loaded, the collection created empty.
InitSearcher ==
  /\ colpali_model = None
  /\ colpali_processor = None
  /\ points = <<>>
  /\ indexed = <<>>
  /\ out = NoCall

\* No response is being parsed.
InitParser ==
  /\ grobid_response = None
  /\ parsed = None

\* The dashboard before "Upload & Process" is pressed.
Idle == [pc |-> "idle", doc_id |-> 0, i |-> 0, polls |-> 0, slept |-> 0,
         shown |-> "none"]

InitDashboard == dash = Idle

Init == InitApi /\ InitSearcher /\ InitParser /\ InitDashboard

(***************************************************************************)
(* api/main.py: POST /upload                                               *)
(***************************************************************************)
\* str(uuid.uuid4())
new_doc_id == next_id

\* upload_pdf up to its first await: validation, identifier, status entry.
upload_pdf(filename, size, pdf_content) ==
  \/ /\ ~endswith_pdf(filename)
     /\ http' = Response("upload", 400)
     /\ UNCHANGED <<processing_status, documents, background_tasks, reading,
                    next_id, now, store, calls>>
  \/ /\ endswith_pdf(filename)
     /\ truthy(size) /\ size[1] > max_file_size
     /\ http' = Response("upload", 400)
     /\ UNCHANGED <<processing_status, documents, background_tasks, reading,
                    next_id, now, store, calls>>
  \/ /\ endswith_pdf(filename)
     /\ ~(truthy(size) /\ size[1] > max_file_size)
     /\ next_id <= MaxUploads
     /\ processing_status' = SetKey(processing_status, new_doc_id, PROCESSING)
     /\ reading' = reading \cup
          {[doc_id |-> new_doc_id, filename |-> filename,
            pdf_content |-> pdf_content]}
     /\ next_id' = next_id + 1
     /\ UNCHANGED <<documents, background_tasks, now, store, calls, http>>

\* upload_pdf from `await file.read()` on: the read raises, or the task is
\* scheduled and the response returned.
upload_pdf_read(u, read_ok) ==
  /\ u \in reading
  /\ reading' = reading \ {u}
  /\ \/ /\ ~read_ok
        /\ http' = Response("upload", 400)
        /\ UNCHANGED background_tasks
     \/ /\ read_ok
        /\ background_tasks' = background_tasks \cup
             {[doc_id |-> u.doc_id, pdf_content |-> u.pdf_content,
               filename |-> u.filename]}
        /\ http' = Response("upload", 200)
  /\ UNCHANGED <<processing_status, documents, next_id, now, store, calls>>

(***************************************************************************)
(* src/core/processor.py: EnhancedGROBIDProcessor                          *)
(***************************************************************************)
\* What the environment does to one process_research_paper call.
\*   io:   "ok", or the step that raises OSError: "init_error" (the
\*         constructor's storage_dir.mkdir), "mkdir_error" (paper_dir.mkdir),
\*         "open_error" (open(data.json, 'w') fails: no file),
\*         "write_error" (json.dump fails after open: a truncated file)
\*   text: GROBID's answer: "200", "non200", "network_error"
\*   img:  PyMuPDF on the bytes: "ok", "error"
IoOutcomes == {"ok", "init_error", "mkdir_error", "open_error", "write_error"}
GrobidOutcomes == {"200", "non200", "network_error"}
ImageOutcomes == {"ok", "error"}

Alnum ==
  {"a", "b", "c", "d", "e", "f", "g", "h", "i", "j", "k", "l", "m", "n", "o",
   "p", "q", "r", "s", "t", "u", "v", "w", "x", "y", "z",
   "A", "B", "C", "D", "E", "F", "G", "H", "I", "J", "K", "L", "M", "N", "O",
   "P", "Q", "R", "S", "T", "U", "V", "W", "X", "Y", "Z",
   "0", "1", "2", "3", "4", "5", "6", "7", "8", "9"}

\* s[:n]
Prefix(s, n) == SubSeq(s, 1, IF Len(s) < n THEN Len(s) ELSE n)

\* hashlib.md5(pdf_content).hexdigest()[:12]: distinct for the distinct
\* contents of PdfContents.
md5_hex12(pdf_content) == <<"md5", pdf_content>>

\* "".join(c for c in filename if c.isalnum() or c in "._-")[:20]
clean_filename(filename) ==
  LET Safe(c) == c \in Alnum \cup {".", "_", "-"}
  IN  Prefix(SelectSeq(filename, Safe), 20)

\* A paper ID salted with the number of calls so far: no two calls share one.
_generate_paper_id_salted(pdf_content, filename) ==
  [clean_filename |-> clean_filename(filename),
   content_hash |-> <<"md5", pdf_content, Len(calls)>>]

\* f"{clean_filename}_{content_hash}": the hash has a fixed length, so the
\* string determines the pair and the pair the string.
_generate_paper_id(pdf_content, filename) ==
  [clean_filename |-> clean_filename(filename),
   content_hash |-> md5_hex12(pdf_content)]

(***************************************************************************)
(* src/core/processor.py: the TEI document GROBID returns and its parsing  *)
(*                                                                         *)
(* A TEI document (the BeautifulSoup of the response) is a record:         *)
(*   title, abstract: None or <<text>>, the first such element             *)
(*   authors:     the <author> elements: persName None or <<[forename,     *)
(*                surname]>>, each None or <<text>>; orgName likewise      *)
(*   divs:        the <div> elements: head None or <<text>>, and the texts *)
(*                of the <p> elements                                      *)
(*   biblStructs: the <biblStruct> elements: the surnames of their authors *)
(*                (None for an author without one), title None or <<text>> *)
(*   keywords:    None or <<the texts of the <term> elements>>             *)
(* A text that is measured or cut (heads, paragraphs, surnames and titles  *)
(* of references) is a sequence of characters; titles, abstracts, names    *)
(* and keywords are whole strings, already stripped.                       *)
(***************************************************************************)
\* c * n
Rep(c, n) == [i \in 1..n |-> c]

\* str.strip() of a text whose only whitespace is " "
RECURSIVE lstrip(_)
lstrip(text) == IF text # <<>> /\ Head(text) = " " THEN lstrip(Tail(text)) ELSE text

RECURSIVE rstrip(_)
rstrip(text) ==
  IF text # <<>> /\ text[Len(text)] = " "
  THEN rstrip(SubSeq(text, 1, Len(text) - 1)) ELSE text

strip(text) == rstrip(lstrip(text))

\* sep.join(list)
RECURSIVE join(_, _)
join(sep, list) ==
  IF list = <<>> THEN <<>>
  ELSE IF Len(list) = 1 THEN list[1]
  ELSE list[1] \o sep \o join(sep, Tail(list))

\* "..."
Ellipsis == <<".", ".", ".">>

_get_title(soup) ==
  IF soup.title # None THEN soup.title[1] ELSE "Title not found"

\* _get_authors: of the first 10 <author> elements, those with a surname.
_get_authors(soup) ==
  LET Named(author) == author.persName # None /\ author.persName[1].surname # None
      Entry(author) ==
        LET name_elem == author.persName[1]
        IN  [name |-> IF name_elem.forename # None
                      THEN <<name_elem.forename[1], " ", name_elem.surname[1]>>
                      ELSE <<name_elem.surname[1]>>,
             affiliation |-> IF author.orgName # None THEN author.orgName[1]
                             ELSE "Unknown"]
      named == SelectSeq(Prefix(soup.authors, 10), Named)
  IN  [k \in 1..Len(named) |-> Entry(named[k])]

\* _get_abstract, for abstracts that do not begin with the word "abstract".
_get_abstract(soup) ==
  IF soup.abstract # None THEN soup.abstract[1] ELSE "Abstract not found"

\* _get_sections cutting at `len(content) >= 300`.
_get_sections_cut_from_300(soup) ==
  LET Headed(div) == div.head # None /\ strip(div.head[1]) # <<>>
      Section(div) ==
        LET paragraphs == Prefix(div.paragraphs, 2)
            content == join(<<" ">>, [k \in 1..Len(paragraphs) |-> strip(paragraphs[k])])
        IN  [title |-> strip(div.head[1]),
             content |-> IF Len(content) >= 300
                         THEN Prefix(content, 300) \o Ellipsis ELSE content]
      headed == SelectSeq(Prefix(soup.divs, 15), Headed)
  IN  [k \in 1..Len(headed) |-> Section(headed[k])]

\* _get_sections: of the first 15 <div> elements, those with a non-blank
\* head; the content is the first two paragraphs joined, cut at 300.
_get_sections(soup) ==
  LET Headed(div) == div.head # None /\ strip(div.head[1]) # <<>>
      Section(div) ==
        LET paragraphs == Prefix(div.paragraphs, 2)
            content == join(<<" ">>, [k \in 1..Len(paragraphs) |-> strip(paragraphs[k])])
        IN  [title |-> strip(div.head[1]),
             content |-> IF Len(content) > 300
                         THEN Prefix(content, 300) \o Ellipsis ELSE content]
      headed == SelectSeq(Prefix(soup.divs, 15), Headed)
  IN  [k \in 1..Len(headed) |-> Section(headed[k])]

\* _get_references: of the first 10 <biblStruct> elements, those with a
\* surname among their first two authors or with a title; cut at 100.
_get_references(soup) ==
  LET Surname(author) == author # None
      Names(bibl) ==
        LET with_surname == SelectSeq(Prefix(bibl.authors, 2), Surname)
        IN  [k \in 1..Len(with_surname) |-> strip(with_surname[k][1])]
      Parts(bibl) ==
        (IF Names(bibl) # <<>> THEN <<join(<<",", " ">>, Names(bibl))>> ELSE <<>>)
          \o (IF bibl.title # None
              THEN <<<<"\"">> \o strip(bibl.title[1]) \o <<"\"">>>> ELSE <<>>)
      Ref(bibl) ==
        LET ref == join(<<".", " ">>, Parts(bibl))
        IN  IF Len(ref) > 100 THEN Prefix(ref, 100) \o Ellipsis ELSE ref
      HasParts(bibl) == Parts(bibl) # <<>>
      kept == SelectSeq(Prefix(soup.biblStructs, 10), HasParts)
  IN  [k \in 1..Len(kept) |-> Ref(kept[k])]

\* _get_keywords: the non-empty terms, for terms already stripped.
_get_keywords(soup) ==
  IF soup.keywords # None
  THEN LET Filled(keyword) == keyword # "" IN SelectSeq(soup.keywords[1], Filled)
  ELSE <<>>

\* The dict _extract_text_content returns for a 200 response.
parse_tei(soup) ==
  [title |-> _get_title(soup), authors |-> _get_authors(soup),
   abstract |-> _get_abstract(soup), sections |-> _get_sections(soup),
   references |-> _get_references(soup), keywords |-> _get_keywords(soup)]

\* The TEI document GROBID returns for the PDFs of PdfContents.
GrobidTei ==
  [title |-> <<"Attention">>, abstract |-> <<"We propose">>,
   authors |-> <<[persName |-> <<[forename |-> <<"A.">>, surname |-> <<"Author">>]>>,
                  orgName |-> None]>>,
   divs |-> <<[head |-> <<<<"I", "n", "t", "r", "o">>>>,
               paragraphs |-> <<<<" ", "W", "e">>, <<"d", "o">>, <<"x">>>>]>>,
   biblStructs |-> <<[authors |-> <<<<<<"D", "o", "e">>>>, None>>,
                      title |-> <<<<"O", "n", "e">>>>]>>,
   keywords |-> <<<<"nlp", "">>>>]

\* _extract_text_content: the fields parsed from a 200 response; any
\* exception (a network error, the non-200 raise) is caught and gives the
\* empty fields.
_extract_text_content(text) ==
  IF text = "200"
  THEN parse_tei(GrobidTei)
  ELSE [title |-> "", authors |-> <<>>, abstract |-> "", sections |-> <<>>,
        references |-> <<>>, keywords |-> <<>>]

\* _extract_and_save_images: the figures found, or the empty default when
\* PyMuPDF raises.  pil_image.size is a tuple.
_extract_and_save_images(img) ==
  IF img = "ok"
  THEN [figures |-> <<[figure_id |-> "page_1_img_1", page |-> 1,
                       size |-> <<"tuple", 640, 480>>]>>,
        total_figures |-> 1]
  ELSE [figures |-> <<>>, total_figures |-> 0]

\* json.load(json.dump(result)): a tuple comes back as a list, everything
\* else the result holds (str, int, list, dict) comes back equal.
json_roundtrip(result) ==
  [result EXCEPT !.figures =
     [i \in 1..Len(result.figures) |->
        [result.figures[i] EXCEPT !.size = <<"list", @[2], @[3]>>]]]

\* The except branch of process_pdf.
ErrorResult(error, paper_id) ==
  [status |-> "error", error |-> error, paper_id |-> paper_id]

\* The check for data.json made against a path that never exists.
data_json_never_found(paper_id) == FALSE

\* (paper_dir / "data.json").exists()
data_json_exists(paper_id) == paper_id \in DOMAIN store

\* process_pdf: the result returned, the Paper Store afterwards, and what
\* the call did (grobid: "ok" or "failed" as the outbound call went,
\* "not_called" when none was made; wrote: data.json was written completely).
process_pdf(pdf_content, filename, io, text, img) ==
  LET paper_id == _generate_paper_id(pdf_content, filename)
      called == IF text = "200" THEN "ok" ELSE "failed"
      result == update(update(update([paper_id |-> paper_id, filename |-> filename],
                                     _extract_text_content(text)),
                              _extract_and_save_images(img)),
                       [status |-> "success"])
  IN
  IF data_json_exists(paper_id)
  THEN IF store[paper_id].valid
       THEN [result |-> update(store[paper_id].data, [status |-> "loaded_from_cache"]),
             store |-> store, grobid |-> "not_called", wrote |-> FALSE]
       ELSE [result |-> ErrorResult("JSONDecodeError", paper_id),
             store |-> store, grobid |-> "not_called", wrote |-> FALSE]
  ELSE IF io = "mkdir_error"
  THEN [result |-> ErrorResult("OSError: mkdir", paper_id),
        store |-> store, grobid |-> "not_called", wrote |-> FALSE]
  ELSE IF io = "open_error"
  THEN [result |-> ErrorResult("OSError: open", paper_id),
        store |-> store, grobid |-> called, wrote |-> FALSE]
  ELSE IF io = "write_error"
  THEN [result |-> ErrorResult("OSError: write", paper_id),
        store |-> SetKey(store, paper_id, [valid |-> FALSE, data |-> <<>>]),
        grobid |-> called, wrote |-> FALSE]
  ELSE [result |-> result,
        store |-> SetKey(store, paper_id,
                         [valid |-> TRUE, data |-> json_roundtrip(result)]),
        grobid |-> called, wrote |-> TRUE]

\* process_research_paper: builds a processor (its constructor creates the
\* storage directory and may raise) and calls process_pdf.
process_research_paper(pdf_content, filename, io, text, img) ==
  IF io = "init_error"
  THEN [raised |-> TRUE, error |-> "OSError: storage_dir"]
  ELSE [raised |-> FALSE] @@ process_pdf(pdf_content, filename, io, text, img)

(***************************************************************************)
(* api/main.py: the background task                                        *)
(***************************************************************************)
\* The record process_document stores on its except path.
ErrorPlaceholder(error) ==
  [status |-> "error", error |-> error, title |-> "", authors |-> <<>>,
   abstract |-> "", sections |-> <<>>, references |-> <<>>]

DocumentRecord(t, processing_result) ==
  [document_id |-> t.doc_id, filename |-> t.filename, upload_time |-> now,
   file_size |-> len(t.pdf_content), processing_result |-> processing_result]

\* The status process_document gives a result that process_pdf returned.
StatusOf(result) == IF result.status = "success" THEN COMPLETED ELSE FAILED

\* process_document without lines 128-143: the except path sets the status
\* and stores no record.
process_document_without_placeholder(t, io, text, img) ==
  /\ t \in background_tasks
  /\ background_tasks' = background_tasks \ {t}
  /\ LET r == process_research_paper(t.pdf_content, t.filename, io, text, img)
     IN  IF r.raised
         THEN /\ processing_status' = SetKey(processing_status, t.doc_id, FAILED)
              /\ UNCHANGED <<documents, store, calls>>
         ELSE /\ documents' = SetDocument(documents, DocumentRecord(t, r.result))
              /\ processing_status' =
                   SetKey(processing_status, t.doc_id, StatusOf(r.result))
              /\ store' = r.store
              /\ calls' = Append(calls,
                    [pdf_content |-> t.pdf_content, filename |-> t.filename,
                     grobid |-> r.grobid, wrote |-> r.wrote,
                     result |-> r.result])
  /\ now' = now + 1
  /\ UNCHANGED <<reading, next_id, http>>

process_document(t, io, text, img) ==
  /\ t \in background_tasks
  /\ background_tasks' = background_tasks \ {t}
  /\ LET r == process_research_paper(t.pdf_content, t.filename, io, text, img)
     IN  IF r.raised
         THEN /\ processing_status' = SetKey(processing_status, t.doc_id, FAILED)
              /\ documents' = SetDocument(documents,
                                DocumentRecord(t, ErrorPlaceholder(r.error)))
              /\ UNCHANGED <<store, calls>>
         ELSE /\ documents' = SetDocument(documents, DocumentRecord(t, r.result))
              /\ processing_status' =
                   SetKey(processing_status, t.doc_id, StatusOf(r.result))
              /\ store' = r.store
              /\ calls' = Append(calls,
                    [pdf_content |-> t.pdf_content, filename |-> t.filename,
                     grobid |-> r.grobid, wrote |-> r.wrote,
                     result |-> r.result])
  /\ now' = now + 1
  /\ UNCHANGED <<reading, next_id, http>>

(***************************************************************************)
(* api/main.py: GET /status/{doc_id}, GET /documents, DELETE, GET /health  *)
(***************************************************************************)
\* The response of get_document_status: 404, or 200 and the body.
status_response(doc_id) ==
  IF doc_id \notin DOMAIN processing_status
  THEN [code |-> 404, body |-> [detail |-> "Document not found"]]
  ELSE LET status == processing_status[doc_id]
           response == [document_id |-> doc_id, status |-> status]
       IN  IF InDocuments(doc_id)
           THEN LET doc_data == DocData(doc_id)
                    with_data == update(response,
                                   [filename |-> doc_data.filename,
                                    upload_time |-> doc_data.upload_time,
                                    file_size |-> doc_data.file_size])
                IN  [code |-> 200,
                     body |->
                       IF status = COMPLETED
                       THEN update(with_data, [result |-> doc_data.processing_result])
                       ELSE IF status = FAILED
                       THEN update(with_data,
                              [error |-> Get(doc_data.processing_result, "error",
                                             "Processing failed")])
                       ELSE with_data]
           ELSE [code |-> 200, body |-> response]

get_document_status(doc_id) ==
  /\ http' = Response("status", status_response(doc_id).code)
  /\ UNCHANGED <<processing_status, documents, background_tasks, reading,
                 next_id, now, store, calls>>

\* One entry of the list response.
doc_info(doc_data) ==
  LET status == Get(processing_status, doc_data.document_id, FAILED)
      info == [document_id |-> doc_data.document_id,
               filename |-> doc_data.filename, status |-> status,
               upload_time |-> doc_data.upload_time,
               file_size |-> doc_data.file_size]
      result == doc_data.processing_result
  IN  IF status = COMPLETED /\ result.status = "success"
      THEN update(info, [title |-> Get(result, "title", ""),
                         authors_count |-> Len(Get(result, "authors", <<>>)),
                         sections_count |-> Len(Get(result, "sections", <<>>))])
      ELSE info

\* sorted(document_list, key=upload_time, reverse=True): stable, so entries
\* with equal keys keep their order.
sorted_reverse(list) ==
  LET \* the place of list[i]: behind every entry of a larger key and every
      \* earlier entry of the same key
      place(i) ==
        1 + Cardinality({j \in 1..Len(list) :
                           \/ list[j].upload_time > list[i].upload_time
                           \/ list[j].upload_time = list[i].upload_time /\ j < i})
  IN  [p \in 1..Len(list) |-> list[CHOOSE i \in 1..Len(list) : place(i) = p]]

\* The body of the list response.
list_response ==
  sorted_reverse([i \in 1..Len(documents) |-> doc_info(documents[i])])

list_documents ==
  /\ http' = Response("list", 200)
  /\ UNCHANGED <<processing_status, documents, background_tasks, reading,
                 next_id, now, store, calls>>

\* delete_document looking the identifier up in processing_status instead of
\* documents.
delete_document_by_status(doc_id) ==
  \/ /\ doc_id \notin DOMAIN processing_status
     /\ http' = Response("delete", 404)
     /\ UNCHANGED <<processing_status, documents, background_tasks, reading,
                    next_id, now, store, calls>>
  \/ /\ doc_id \in DOMAIN processing_status
     /\ documents' = DelDocument(documents, doc_id)
     /\ processing_status' = DelKey(processing_status, doc_id)
     /\ http' = Response("delete", 200)
     /\ UNCHANGED <<background_tasks, reading, next_id, now, store, calls>>

\* delete_document without lines 219-220: the status entry stays.
delete_document_keeps_status(doc_id) ==
  \/ /\ ~InDocuments(doc_id)
     /\ http' = Response("delete", 404)
     /\ UNCHANGED <<processing_status, documents, background_tasks, reading,
                    next_id, now, store, calls>>
  \/ /\ InDocuments(doc_id)
     /\ documents' = DelDocument(documents, doc_id)
     /\ http' = Response("delete", 200)
     /\ UNCHANGED <<processing_status, background_tasks, reading, next_id,
                    now, store, calls>>

\* delete_document refusing only identifiers that neither map knows.
delete_document_any_known(doc_id) ==
  \/ /\ ~InDocuments(doc_id) /\ doc_id \notin DOMAIN processing_status
     /\ http' = Response("delete", 404)
     /\ UNCHANGED <<processing_status, documents, background_tasks, reading,
                    next_id, now, store, calls>>
  \/ /\ InDocuments(doc_id) \/ doc_id \in DOMAIN processing_status
     /\ documents' = DelDocument(documents, doc_id)
     /\ processing_status' =
          IF doc_id \in DOMAIN processing_status
          THEN DelKey(processing_status, doc_id) ELSE processing_status
     /\ http' = Response("delete", 200)
     /\ UNCHANGED <<background_tasks, reading, next_id, now, store, calls>>

delete_document(doc_id) ==
  \/ /\ ~InDocuments(doc_id)
     /\ http' = Response("delete", 404)
     /\ UNCHANGED <<processing_status, documents, background_tasks, reading,
                    next_id, now, store, calls>>
  \/ /\ InDocuments(doc_id)
     /\ documents' = DelDocument(documents, doc_id)
     /\ processing_status' =
          IF doc_id \in DOMAIN processing_status
          THEN DelKey(processing_status, doc_id) ELSE processing_status
     /\ http' = Response("delete", 200)
     /\ UNCHANGED <<background_tasks, reading, next_id, now, store, calls>>

\* len([d for d in processing_status.values() if d == status])
CountStatus(status) ==
  Cardinality({d \in DOMAIN processing_status : processing_status[d] = status})

\* The body of the health response.
health_response ==
  [status |-> "healthy",
   total_documents |-> Len(documents),
   processing_documents |-> CountStatus(PROCESSING),
   completed_documents |-> CountStatus(COMPLETED),
   failed_documents |-> CountStatus(FAILED)]

health_check ==
  /\ http' = Response("health", 200)
  /\ UNCHANGED <<processing_status, documents, background_tasks, reading,
                 next_id, now, store, calls>>

(***************************************************************************)
(* src/core/colpali.py: ColPaliSearcher                                    *)
(***************************************************************************)
\* Bound: the number of pages of the largest PDF indexed.
MaxPages == 3

\* The PDF files: the file at path k has k pages.
PdfPaths == 1..MaxPages
len_doc(pdf_path) == pdf_path

\* A paper ID is a pair: a caller's name for a paper and 0, or "paper" and
\* the hash of a file.
PaperX == <<"X", 0>>

\* The paper_id argument of index_pdf: None or an identifier.
PaperIdArgs == {None, <<PaperX>>}

BatchSizes == {2, 4}
Queries == {"q1", "q2"}
TopKs == {1, 3}

\* The first step of a call that raises, if any: loading the model, loading
\* the processor, rasterizing, embedding the first or the last batch (or the
\* query), the upsert (or the query_points request) refused by the database,
\* update_collection.
IndexFaults ==
  {"none", "load_model", "load_processor", "raster", "embed_first",
   "embed_last", "upsert", "update_collection"}
SearchFaults ==
  {"none", "load_model", "load_processor", "embed_first", "query_points"}

Loaded(name) == <<name>>

\* load_model: both attributes set, or the exception of the step that raised;
\* the model is assigned before the processor is loaded.
load_model(fault) ==
  IF fault = "load_model"
  THEN [colpali_model |-> colpali_model, colpali_processor |-> colpali_processor,
        raised |-> TRUE, entered |-> TRUE]
  ELSE IF fault = "load_processor"
  THEN [colpali_model |-> Loaded("ColPali"), colpali_processor |-> colpali_processor,
        raised |-> TRUE, entered |-> TRUE]
  ELSE [colpali_model |-> Loaded("ColPali"),
        colpali_processor |-> Loaded("ColPaliProcessor"), raised |-> FALSE,
        entered |-> TRUE]

\* `if self.colpali_model is None: self.load_model()`
ensure_loaded(fault) ==
  IF colpali_model = None
  THEN load_model(fault)
  ELSE [colpali_model |-> colpali_model, colpali_processor |-> colpali_processor,
        raised |-> FALSE, entered |-> FALSE]

\* pdf_to_images: one image per page, in page order.
pdf_to_images(pdf_path) == [k \in 1..len_doc(pdf_path) |-> [pdf_path |-> pdf_path, page |-> k - 1]]

\* f"paper_{hashlib.md5(f.read()).hexdigest()[:8]}"
paper_id_of_file(pdf_path) == <<"paper", pdf_path>>

\* f"{paper_id}_page_{page_idx}"
point_id(paper_id, page_idx) == [paper_id |-> paper_id, page |-> page_idx]

\* range(0, n, batch_size)
RECURSIVE range_step(_, _, _)
range_step(i, n, batch_size) ==
  IF i >= n THEN <<>> ELSE <<i>> \o range_step(i + batch_size, n, batch_size)

\* The points of one batch: images[i:i + batch_size], page_idx = i + j.
batch_points(images, i, batch_size, paper_id, pdf_path) ==
  LET batch_images == SubSeq(images, i + 1,
                             IF i + batch_size < Len(images) THEN i + batch_size
                             ELSE Len(images))
  IN  [j \in 1..Len(batch_images) |->
         [id |-> point_id(paper_id, i + (j - 1)),
          vector |-> batch_images[j],
          payload |-> [paper_id |-> paper_id, page_number |-> i + (j - 1),
                       pdf_path |-> pdf_path, total_pages |-> Len(images)]]]

\* all_points after the batches starting at starts[1], starts[2], ...
RECURSIVE collect_points(_, _, _, _, _)
collect_points(images, starts, batch_size, paper_id, pdf_path) ==
  IF starts = <<>> THEN <<>>
  ELSE batch_points(images, Head(starts), batch_size, paper_id, pdf_path)
         \o collect_points(images, Tail(starts), batch_size, paper_id, pdf_path)

\* qdrant_client.upsert: a point whose id is in the collection replaces it,
\* every other point of the collection stays.
upsert(collection, all_points) ==
  LET ids == {all_points[k].id : k \in 1..Len(all_points)}
      New(id) == CHOOSE k \in 1..Len(all_points) :
                   /\ all_points[k].id = id
                   /\ \A m \in (k + 1)..Len(all_points) : all_points[m].id # id
  IN  [id \in DOMAIN collection \cup ids |->
         IF id \in ids
         THEN [vector |-> all_points[New(id)].vector,
               payload |-> all_points[New(id)].payload]
         ELSE collection[id]]

\* What a ColPaliSearcher call leaves in `out`.
Returned(op, value) == [op |-> op, raised |-> FALSE, value |-> value]
Raised(op) == [op |-> op, raised |-> TRUE, value |-> <<>>]

\* The outcome of a call with the course it took: whether load_model was
\* entered, the statement that raised if one did, whether the call reached
\* its first embedding statement, how many batches (or queries) it then had
\* to embed and how many it embedded.
Traced(outcome, entered, at, reached, batches, embedded) ==
  [op |-> outcome.op, raised |-> outcome.raised, value |-> outcome.value,
   entered |-> entered, at |-> at, reached |-> reached,
   batches |-> IF reached THEN batches ELSE 0, embedded |-> embedded]

\* index_pdf, were each batch upserted as soon as it is embedded.
index_pdf_upsert_per_batch(pdf_path, paper_id_arg, batch_size, fault) ==
  LET loaded == ensure_loaded(fault)
      paper_id == IF paper_id_arg = None THEN paper_id_of_file(pdf_path)
                  ELSE paper_id_arg[1]
      images == pdf_to_images(pdf_path)
      starts == range_step(0, Len(images), batch_size)
      all_points == collect_points(images, starts, batch_size, paper_id, pdf_path)
      \* a batch cannot be embedded: the processor is None, or the model raises
      embed_raises ==
        \/ starts # <<>> /\ loaded.colpali_processor = None
        \/ starts # <<>> /\ fault \in {"embed_first", "embed_last"}
      \* the statement that raises
      at == IF loaded.raised THEN "load_model"
            ELSE IF fault = "raster" THEN "pdf_to_images"
            ELSE IF embed_raises THEN "embed"
            ELSE IF fault \in {"upsert", "update_collection"} THEN fault
            ELSE "none"
      \* the loop is reached, and the batches embedded before it ends
      reached == ~loaded.raised /\ fault # "raster" /\ starts # <<>>
      embedded ==
        IF ~reached \/ loaded.colpali_processor = None \/ fault = "embed_first"
        THEN 0
        ELSE IF fault = "embed_last" THEN Len(starts) - 1
        ELSE Len(starts)
  IN
  /\ colpali_model' = loaded.colpali_model
  /\ colpali_processor' = loaded.colpali_processor
  /\ IF loaded.raised \/ fault = "raster" \/ embed_raises \/ fault = "upsert"
     THEN /\ out' = Traced(Raised("index_pdf"), loaded.entered, at, reached,
                           Len(starts), embedded)
          /\ points' = upsert(points,
                              collect_points(images, SubSeq(starts, 1, embedded),
                                             batch_size, paper_id, pdf_path))
          /\ UNCHANGED indexed
     ELSE /\ points' = upsert(points, all_points)
          /\ indexed' = SetKey(indexed, paper_id, pdf_path)
          /\ out' = Traced(IF fault = "update_collection" THEN Raised("index_pdf")
                           ELSE Returned("index_pdf", paper_id),
                           loaded.entered, at, reached, Len(starts), embedded)
  /\ UNCHANGED <<api_vars, parser_vars, dashboard_vars>>

\* index_pdf: the load-once check, then the try block; every exception is
\* logged and re-raised.
index_pdf(pdf_path, paper_id_arg, batch_size, fault) ==
  LET loaded == ensure_loaded(fault)
      paper_id == IF paper_id_arg = None THEN paper_id_of_file(pdf_path)
                  ELSE paper_id_arg[1]
      images == pdf_to_images(pdf_path)
      starts == range_step(0, Len(images), batch_size)
      all_points == collect_points(images, starts, batch_size, paper_id, pdf_path)
      \* a batch cannot be embedded: the processor is None, or the model raises
      embed_raises ==
        \/ starts # <<>> /\ loaded.colpali_processor = None
        \/ starts # <<>> /\ fault \in {"embed_first", "embed_last"}
      \* the statement that raises
      at == IF loaded.raised THEN "load_model"
            ELSE IF fault = "raster" THEN "pdf_to_images"
            ELSE IF embed_raises THEN "embed"
            ELSE IF fault \in {"upsert", "update_collection"} THEN fault
            ELSE "none"
      \* the loop is reached, and the batches embedded before it ends
      reached == ~loaded.raised /\ fault # "raster" /\ starts # <<>>
      embedded ==
        IF ~reached \/ loaded.colpali_processor = None \/ fault = "embed_first"
        THEN 0
        ELSE IF fault = "embed_last" THEN Len(starts) - 1
        ELSE Len(starts)
  IN
  /\ colpali_model' = loaded.colpali_model
  /\ colpali_processor' = loaded.colpali_processor
  /\ IF loaded.raised \/ fault = "raster" \/ embed_raises \/ fault = "upsert"
     THEN /\ out' = Traced(Raised("index_pdf"), loaded.entered, at, reached,
                           Len(starts), embedded)
          /\ UNCHANGED <<points, indexed>>
     ELSE /\ points' = upsert(points, all_points)
          /\ indexed' = SetKey(indexed, paper_id, pdf_path)
          /\ out' = Traced(IF fault = "update_collection" THEN Raised("index_pdf")
                           ELSE Returned("index_pdf", paper_id),
                           loaded.entered, at, reached, Len(starts), embedded)
  /\ UNCHANGED <<api_vars, parser_vars, dashboard_vars>>

\* The similarity of a query and a page under the max-similarity comparator:
\* one query matches the later pages of a document better, the other the
\* longer documents, all their pages alike.
score(query, vector) ==
  IF query = "q1" THEN vector.page + 1 ELSE vector.pdf_path

\* A set as a list, in an order of the database's choosing.
RECURSIVE SeqOf(_)
SeqOf(S) ==
  IF S = {} THEN <<>>
  ELSE LET x == CHOOSE x \in S : TRUE IN <<x>> \o SeqOf(S \ {x})

\* A list of scored points in non-increasing order of score.
by_score(list) ==
  LET \* the place of list[i]: behind every entry of a larger score and every
      \* earlier entry of the same score
      place(i) ==
        1 + Cardinality({j \in 1..Len(list) :
                           \/ list[j].score > list[i].score
                           \/ list[j].score = list[i].score /\ j < i})
  IN  [p \in 1..Len(list) |-> list[CHOOSE i \in 1..Len(list) : place(i) = p]]

\* qdrant_client.query_points(query=..., limit=top_k, with_payload=True):
\* the `limit` best-scoring points, best first.
query_points(query, limit) ==
  LET ids == SeqOf(DOMAIN points)
      scored == [k \in 1..Len(ids) |->
                   [payload |-> points[ids[k]].payload,
                    score |-> score(query, points[ids[k]].vector)]]
  IN  Prefix(by_score(scored), limit)

\* The results list search builds from the points returned.
format_results(search_result) ==
  [k \in 1..Len(search_result) |->
     [paper_id |-> search_result[k].payload.paper_id,
      page_number |-> search_result[k].payload.page_number,
      score |-> search_result[k].score,
      pdf_path |-> search_result[k].payload.pdf_path]]

\* search: the load-once check, then the try block.
search(query, top_k, fault) ==
  LET loaded == ensure_loaded(fault)
  IN
  /\ colpali_model' = loaded.colpali_model
  /\ colpali_processor' = loaded.colpali_processor
  /\ out' = Traced(IF \/ loaded.raised
                      \/ loaded.colpali_processor = None
                      \/ fault \in {"embed_first", "query_points"}
                   THEN Raised("search")
                   ELSE Returned("search", format_results(query_points(query, top_k))),
                   loaded.entered,
                   IF loaded.raised THEN "load_model"
                   ELSE IF loaded.colpali_processor = None \/ fault = "embed_first"
                   THEN "embed"
                   ELSE IF fault = "query_points" THEN fault
                   ELSE "none",
                   ~loaded.raised, 1,
                   IF \/ loaded.raised
                      \/ loaded.colpali_processor = None
                      \/ fault = "embed_first"
                   THEN 0 ELSE 1)
  /\ UNCHANGED <<points, indexed>>
  /\ UNCHANGED <<api_vars, parser_vars, dashboard_vars>>

\* get_document_info: scroll(filter paper_id, limit=1) returns the matching
\* point of the least id, if any; None without one.
get_document_info(paper_id) ==
  LET pages == {id.page : id \in {x \in DOMAIN points : x.paper_id = paper_id}}
  IN  IF pages = {} THEN None
      ELSE LET first == CHOOSE p \in pages : \A q \in pages : p <= q
               payload == points[point_id(paper_id, first)].payload
           IN  <<[paper_id |-> paper_id, pdf_path |-> payload.pdf_path,
                  num_pages |-> payload.total_pages, indexed |-> TRUE]>>

(***************************************************************************)
(* src/frontend/streamlit_app.py: upload_tab                               *)
(***************************************************************************)
\* `for i in range(60)`
poll_attempts == 60

\* api_call: the JSON body of a response, None for a connection error or
\* an error status (raise_for_status).
api_call(api_up, response) ==
  IF api_up /\ response.code = 200 THEN <<response.body>> ELSE None

\* "Upload & Process" is pressed: the file is posted.  The request is
\* refused at once (or the API is down) and nothing more happens, or the
\* API takes it on and the dashboard waits for the response.
upload_tab_press(filename, pdf_content, api_up) ==
  /\ dash.pc \in {"idle", "done"}
  /\ \/ /\ ~api_up
        /\ dash' = [Idle EXCEPT !.pc = "done", !.shown = "upload_error"]
        /\ UNCHANGED api_vars
     \/ /\ api_up
        /\ upload_pdf(filename, <<len(pdf_content)>>, pdf_content)
        /\ dash' = IF reading' = reading
                   THEN [Idle EXCEPT !.pc = "done", !.shown = "upload_error"]
                   ELSE [Idle EXCEPT !.pc = "uploading", !.doc_id = new_doc_id]
  /\ UNCHANGED <<searcher_vars, parser_vars>>

\* The response to the upload arrives: `if result:` starts the polling loop.
upload_tab_uploaded(u, read_ok) ==
  /\ dash.pc = "uploading"
  /\ u.doc_id = dash.doc_id
  /\ upload_pdf_read(u, read_ok)
  /\ dash' = IF read_ok THEN [dash EXCEPT !.pc = "polling"]
             ELSE [dash EXCEPT !.pc = "done", !.shown = "upload_error"]
  /\ UNCHANGED <<searcher_vars, parser_vars>>

\* The polling loop without its `elif status == "failed"` branch.
upload_tab_poll_ignoring_failed(api_up) ==
  LET status_result == api_call(api_up, status_response(dash.doc_id))
      completed == status_result # None /\ status_result[1].status = "completed"
  IN
  /\ dash.pc = "polling"
  /\ dash.i < poll_attempts
  /\ IF api_up THEN get_document_status(dash.doc_id) ELSE UNCHANGED api_vars
  /\ dash' =
       IF completed
       THEN [dash EXCEPT !.pc = "done", !.polls = @ + 1, !.shown = "results"]
       ELSE IF dash.i + 1 < poll_attempts
       THEN [dash EXCEPT !.i = @ + 1, !.polls = @ + 1, !.slept = @ + 1]
       ELSE [dash EXCEPT !.pc = "done", !.i = @ + 1, !.polls = @ + 1,
                         !.slept = @ + 1, !.shown = "still_processing"]
  /\ UNCHANGED <<searcher_vars, parser_vars>>

\* One iteration of the polling loop: the status request, a break on
\* completed or failed, else time.sleep(1); after the last iteration the
\* for-else shows the still-processing notice.
upload_tab_poll(api_up) ==
  LET status_result == api_call(api_up, status_response(dash.doc_id))
      completed == status_result # None /\ status_result[1].status = "completed"
      failed == status_result # None /\ status_result[1].status = "failed"
  IN
  /\ dash.pc = "polling"
  /\ dash.i < poll_attempts
  /\ IF api_up THEN get_document_status(dash.doc_id) ELSE UNCHANGED api_vars
  /\ dash' =
       IF completed
       THEN [dash EXCEPT !.pc = "done", !.polls = @ + 1, !.shown = "results"]
       ELSE IF failed
       THEN [dash EXCEPT !.pc = "done", !.polls = @ + 1, !.shown = "error"]
       ELSE IF dash.i + 1 < poll_attempts
       THEN [dash EXCEPT !.i = @ + 1, !.polls = @ + 1, !.slept = @ + 1]
       ELSE [dash EXCEPT !.pc = "done", !.i = @ + 1, !.polls = @ + 1,
                         !.slept = @ + 1, !.shown = "still_processing"]
  /\ UNCHANGED <<searcher_vars, parser_vars>>

(***************************************************************************)
(* The system                                                              *)
(***************************************************************************)
\* The requests and the environment a run draws from.
\* The API process holds no ColPaliSearcher, parser state or dashboard.
rest_vars == <<searcher_vars, parser_vars, dashboard_vars>>

Run(filenames, contents, ios, texts, images) ==
  \/ /\ \E filename \in filenames, pdf_content \in contents :
          \E size \in SizesOf(pdf_content) : upload_pdf(filename, size, pdf_content)
     /\ UNCHANGED rest_vars
  \/ /\ \E u \in reading, read_ok \in BOOLEAN : upload_pdf_read(u, read_ok)
     /\ UNCHANGED rest_vars
  \/ /\ \E t \in background_tasks, io \in ios, text \in texts, img \in images :
          process_document(t, io, text, img)
     /\ UNCHANGED rest_vars
  \/ /\ \E doc_id \in DocIds : get_document_status(doc_id)
     /\ UNCHANGED rest_vars
  \/ /\ list_documents
     /\ UNCHANGED rest_vars
  \/ /\ \E doc_id \in DocIds : delete_document(doc_id)
     /\ UNCHANGED rest_vars
  \/ /\ health_check
     /\ UNCHANGED rest_vars

\* The API over its whole life: one accepted filename, two byte contents.
Next ==
  Run({NameA, NameTxt}, {"atmax", "overmax"}, {"ok", "init_error", "open_error"},
      GrobidOutcomes, {"ok"})

Spec == Init /\ [][Next]_vars

\* The steps the event loop is bound to take: a background task that was
\* added runs, and an upload suspended at `await file.read()` resumes.
RunTask ==
  /\ \E t \in background_tasks, io \in {"ok", "init_error", "open_error"},
        text \in GrobidOutcomes :
       process_document(t, io, text, "ok")
  /\ UNCHANGED rest_vars

ResumeUpload ==
  /\ \E u \in reading, read_ok \in BOOLEAN : upload_pdf_read(u, read_ok)
  /\ UNCHANGED rest_vars

\* The API with every scheduled background task eventually run and every
\* read of a request body eventually returning or raising.
SpecLive == Spec /\ WF_vars(RunTask) /\ WF_vars(ResumeUpload)

\* The API with every filename and byte content, for the claims about the
\* upload request.
NextUpload ==
  Run(Filenames, PdfContents, {"ok", "init_error"}, {"200", "non200"}, {"ok"})

SpecUpload == Init /\ [][NextUpload]_vars

\* The processor called directly, as process_research_paper's callers and
\* tests do: any sequence of at most MaxCalls process_pdf calls.
call_process_pdf(pdf_content, filename, io, text, img) ==
  /\ Len(calls) < MaxCalls
  /\ LET r == process_pdf(pdf_content, filename, io, text, img)
     IN  /\ store' = r.store
         /\ calls' = Append(calls,
               [pdf_content |-> pdf_content, filename |-> filename,
                grobid |-> r.grobid, wrote |-> r.wrote, result |-> r.result])
  /\ UNCHANGED <<processing_status, documents, background_tasks, reading,
                 next_id, now, http>>
  /\ UNCHANGED <<searcher_vars, parser_vars, dashboard_vars>>

NextExtractor ==
  \E pdf_content \in {"empty", "atmax"}, filename \in {NameA, NameASpace, NameLong},
     io \in IoOutcomes \ {"init_error"}, text \in GrobidOutcomes,
     img \in ImageOutcomes :
    call_process_pdf(pdf_content, filename, io, text, img)

SpecExtractor == Init /\ [][NextExtractor]_vars

\* One ColPaliSearcher over its life: any sequence of index_pdf and search
\* calls.
NextSearcher ==
  \/ \E pdf_path \in PdfPaths, paper_id_arg \in PaperIdArgs,
        batch_size \in BatchSizes, fault \in IndexFaults :
       index_pdf(pdf_path, paper_id_arg, batch_size, fault)
  \/ \E query \in Queries, top_k \in TopKs, fault \in SearchFaults :
       search(query, top_k, fault)

SpecSearcher == Init /\ [][NextSearcher]_vars

(***************************************************************************)
(* The TEI documents the parsing is applied to                             *)
(***************************************************************************)
\* Bound: how many elements a document has beyond the number parsed.
MaxExtra == 1

\* A text of n characters.
Text(n) == Rep("x", n)

EmptyTei ==
  [title |-> None, abstract |-> None, authors |-> <<>>, divs |-> <<>>,
   biblStructs |-> <<>>, keywords |-> None]

\* Heads: every div has one; every second div has one; blank; padded.
HeadPatterns == {"all", "odd", "blank", "padded"}

head_of(pattern, k) ==
  CASE pattern = "all" -> <<Text(3)>>
    [] pattern = "odd" -> IF k % 2 = 1 THEN <<Text(3)>> ELSE None
    [] pattern = "blank" -> <<<<" ", " ">>>>
    [] pattern = "padded" -> <<<<" ">> \o Text(3) \o <<" ">>>>

\* The paragraphs of a div: none; one of 300 and of 301 characters; two
\* that join to 300 and to 301; one of 300 between spaces; three of which
\* the first two join to 201.
ParagraphShapes ==
  {<<>>, <<Text(300)>>, <<Text(301)>>, <<Text(149), Text(150)>>,
   <<Text(150), Text(150)>>, <<<<" ">> \o Text(300) \o <<" ">>>>,
   <<Text(100), Text(100), Text(200)>>}

ElementCounts(limit) == {1, limit - 1, limit, limit + MaxExtra}

SectionDocuments ==
  {[EmptyTei EXCEPT !.divs =
      [k \in 1..n |-> [head |-> head_of(pattern, k), paragraphs |-> paragraphs]]] :
     n \in ElementCounts(15), pattern \in HeadPatterns,
     paragraphs \in ParagraphShapes}

\* References: the authors' surnames and a title that make a string of 99,
\* 100 and 101 characters ("Doe, Roe" + ". " + the quoted title), a title
\* alone, authors alone, neither.
Doe == <<<<"D", "o", "e">>>>
Roe == <<<<"R", "o", "e">>>>

BiblShapes ==
  {[authors |-> <<Doe, None, Roe>>, title |-> <<Text(n)>>] : n \in {90, 91}}
    \cup {[authors |-> <<Doe, Roe, Doe>>, title |-> <<Text(n)>>] : n \in {87, 88, 89}}
    \cup {[authors |-> <<>>, title |-> <<Text(n)>>] : n \in {98, 99}}
    \cup {[authors |-> <<Doe>>, title |-> None],
          [authors |-> <<None>>, title |-> None]}

ReferenceDocuments ==
  {[EmptyTei EXCEPT !.biblStructs = [k \in 1..n |-> bibl]] :
     n \in ElementCounts(10), bibl \in BiblShapes}

AuthorShapes ==
  {[persName |-> <<[forename |-> <<"Ann">>, surname |-> <<"Lee">>]>>,
    orgName |-> <<"MIT">>],
   [persName |-> <<[forename |-> None, surname |-> <<"Lee">>]>>, orgName |-> None],
   [persName |-> <<[forename |-> <<"Ann">>, surname |-> None]>>, orgName |-> None],
   [persName |-> None, orgName |-> None]}

AuthorDocuments ==
  {[EmptyTei EXCEPT !.authors = [k \in 1..n |-> author]] :
     n \in ElementCounts(10), author \in AuthorShapes}

TeiDocuments ==
  SectionDocuments \cup ReferenceDocuments \cup AuthorDocuments \cup {GrobidTei}

\* GROBID answers 200 with a TEI document.
receive_response(tei) ==
  /\ grobid_response = None
  /\ grobid_response' = <<tei>>
  /\ UNCHANGED parsed
  /\ UNCHANGED <<api_vars, searcher_vars, dashboard_vars>>

\* _extract_text_content on a 200 response.
parse_response ==
  /\ grobid_response # None /\ parsed = None
  /\ parsed' = <<parse_tei(grobid_response[1])>>
  /\ UNCHANGED grobid_response
  /\ UNCHANGED <<api_vars, searcher_vars, dashboard_vars>>

NextParser ==
  \/ \E tei \in TeiDocuments : receive_response(tei)
  \/ parse_response

SpecParser == Init /\ [][NextParser]_vars

\* The dashboard and the API it talks to: uploads come from the dashboard;
\* the background tasks run, and another client deletes documents, at any
\* time.
NextDashboard ==
  \/ \E filename \in {NameA, NameUpper}, api_up \in BOOLEAN :
       upload_tab_press(filename, "atmax", api_up)
  \/ \E u \in reading, read_ok \in BOOLEAN : upload_tab_uploaded(u, read_ok)
  \/ \E api_up \in BOOLEAN : upload_tab_poll(api_up)
  \/ /\ \E t \in background_tasks, io \in {"ok", "init_error"} :
          process_document(t, io, "200", "ok")
     /\ UNCHANGED <<searcher_vars, parser_vars, dashboard_vars>>
  \/ /\ \E doc_id \in DocIds : delete_document(doc_id)
     /\ UNCHANGED <<searcher_vars, parser_vars, dashboard_vars>>

SpecDashboard == Init /\ [][NextDashboard]_vars

(***************************************************************************)
(* Claims                                                                  *)
(***************************************************************************)
Settled == {COMPLETED, FAILED}

\* C1: while the background task of an accepted upload is still to run, the
\* status query for its document answers 200 with status processing; and a
\* status entry that is completed or failed is never changed by any step
\* except a successful delete of that document, which removes it.
C1_StatusLifecycle ==
  /\ [](\A t \in background_tasks :
          /\ status_response(t.doc_id).code = 200
          /\ status_response(t.doc_id).body.status = PROCESSING)
  /\ [][\A d \in DOMAIN processing_status :
          processing_status[d] \in Settled =>
            \/ /\ d \in DOMAIN processing_status'
               /\ processing_status'[d] = processing_status[d]
            \/ /\ d \notin DOMAIN processing_status'
               /\ delete_document(d)
               /\ http' = Response("delete", 200)]_vars

\* C1 witness: a settled document next to one whose task is still pending,
\* after a status query was answered.
C1_Witness ==
  /\ \E d \in DOMAIN processing_status : processing_status[d] \in Settled
  /\ background_tasks # {}
  /\ http = Response("status", 200)

\* The identifiers of the entries of the list response.
ListedIds == {list_response[i].document_id : i \in 1..Len(list_response)}

\* An identifier uuid4() has handed out and that neither map knows.
Gone(doc_id) ==
  /\ doc_id < next_id
  /\ doc_id \notin DOMAIN processing_status
  /\ ~InDocuments(doc_id)

\* C8: a delete of an identifier that was never issued or is already deleted
\* answers 404 and changes neither map; a delete of a document whose status
\* is completed or failed answers 200, after it the status query for that
\* identifier answers 404 and the list omits it, and the record and status
\* of every other document are as before; and an identifier that is gone
\* stays gone in every later state.
C8_DeleteFrame ==
  [][/\ \A d \in DocIds :
          (http'.op = "delete" /\ delete_document(d) /\ (d >= next_id \/ Gone(d))) =>
            /\ http' = Response("delete", 404)
            /\ UNCHANGED <<documents, processing_status>>
     /\ \A d \in DOMAIN processing_status :
          (http'.op = "delete" /\ processing_status[d] \in Settled /\ delete_document(d)) =>
            /\ http' = Response("delete", 200)
            /\ status_response(d)'.code = 404
            /\ d \notin ListedIds'
            /\ documents' = DelDocument(documents, d)
            /\ \A e \in DocIds \ {d} :
                 /\ e \in DOMAIN processing_status <=> e \in DOMAIN processing_status'
                 /\ e \in DOMAIN processing_status =>
                      processing_status'[e] = processing_status[e]
                 /\ InDocuments(e) <=> InDocuments(e)'
                 /\ InDocuments(e) => DocData(e)' = DocData(e)
     /\ \A d \in DocIds : Gone(d) => Gone(d)']_vars

\* C8 witness: a delete has just succeeded, the deleted identifier is gone
\* and another document is still known.
C8_Witness ==
  /\ http = Response("delete", 200)
  /\ \E d \in DocIds : Gone(d)
  /\ Len(documents) >= 1

\* C2: an upload request whose filename does not end in ".pdf" or whose
\* bytes are more than max_file_size is answered 400 and changes nothing,
\* whatever size the request carries (a number, zero or None); a request
\* with a ".pdf" filename and at most max_file_size bytes is taken on (it is
\* given a document identifier).
C2_UploadValidation ==
  [][\A filename \in Filenames, pdf_content \in PdfContents :
       \A size \in SizesOf(pdf_content) :
         upload_pdf(filename, size, pdf_content) =>
           /\ (~endswith_pdf(filename) \/ len(pdf_content) > max_file_size) =>
                /\ http' = Response("upload", 400)
                /\ UNCHANGED <<processing_status, reading, next_id>>
           /\ (endswith_pdf(filename) /\ len(pdf_content) <= max_file_size) =>
                /\ next_id' = next_id + 1
                /\ processing_status' =
                     SetKey(processing_status, next_id, PROCESSING)]_vars

\* C3: when the outbound GROBID call a background task makes fails, the task
\* leaves the document with status failed and the status query then carries
\* a non-empty error message.
C3_ExtractionFailureFails ==
  [][\A t \in background_tasks, io \in IoOutcomes, text \in GrobidOutcomes,
        img \in ImageOutcomes :
       LET r == process_research_paper(t.pdf_content, t.filename, io, text, img)
       IN  (process_document(t, io, text, img) /\ ~r.raised /\ r.grobid = "failed") =>
             /\ processing_status'[t.doc_id] = FAILED
             /\ Get(status_response(t.doc_id)'.body, "error", "") # ""]_vars

\* C4: a document has status failed only if the extractor raised or
\* returned a result of status "error"; after every other outcome, a result
\* loaded from the Paper Store included, the status is completed and the
\* status query carries the whole processing result.
C4_FailedOnlyOnError ==
  \A d \in DOMAIN processing_status :
    InDocuments(d) =>
      LET result == DocData(d).processing_result
      IN  /\ processing_status[d] = FAILED => result.status = "error"
          /\ result.status # "error" =>
               /\ processing_status[d] = COMPLETED
               /\ "result" \in DOMAIN status_response(d).body
               /\ status_response(d).body.result = result

\* The identifiers the status query knows.
Known == {d \in DocIds : status_response(d).code = 200}

\* C5: whenever no upload is suspended at its read, the health response
\* counts the known documents of each status, and total_documents is the sum
\* of the three counts.
C5_HealthCounts ==
  LET h == health_response
      Count(status) ==
        Cardinality({d \in Known : status_response(d).body.status = status})
  IN  reading = {} =>
      /\ h.processing_documents = Count(PROCESSING)
      /\ h.completed_documents = Count(COMPLETED)
      /\ h.failed_documents = Count(FAILED)
      /\ h.total_documents =
           h.processing_documents + h.completed_documents + h.failed_documents

\* C6: the list response is in descending order of upload: of two listed
\* documents the one uploaded later (the larger identifier: the k-th
\* identifier handed out is k) comes first.
C6_ListNewestUploadFirst ==
  \A i, j \in 1..Len(list_response) :
    i < j => list_response[i].document_id > list_response[j].document_id

\* C7: whenever no upload is suspended at its read, every identifier the
\* status query knows is listed exactly once, with
\* the same status, and a delete of it succeeds; delete answers 404 only
\* for identifiers the status query answers 404 for.
C7_EndpointsAgree ==
  \A d \in DocIds :
    reading = {} =>
    /\ d \in Known =>
         /\ Cardinality({i \in 1..Len(list_response) :
                           list_response[i].document_id = d}) = 1
         /\ \A i \in 1..Len(list_response) :
              list_response[i].document_id = d =>
                list_response[i].status = status_response(d).body.status
         /\ InDocuments(d)
    /\ ~InDocuments(d) => status_response(d).code = 404

\* The fields of a result the cache claims compare; a result without the
\* field (an error result) has none.
Field(result, key) == Get(result, key, "absent")

SameFields(r1, r2) ==
  \A key \in {"title", "authors", "sections", "references"} :
    Field(r1, key) = Field(r2, key)

SameSubmission(i, j) ==
  /\ calls[i].pdf_content = calls[j].pdf_content
  /\ calls[i].filename = calls[j].filename

SamePaper(i, j) ==
  /\ clean_filename(calls[i].filename) = clean_filename(calls[j].filename)
  /\ md5_hex12(calls[i].pdf_content) = md5_hex12(calls[j].pdf_content)

Computed(i) == calls[i].grobid # "not_called" /\ calls[i].wrote

\* C10 as stated: once a record was computed for some bytes, every later call
\* with identical bytes, under any filename, is served from the cache and
\* computes nothing; and a data.json that exists is never overwritten.
C10_OncePerContent ==
  /\ [](\A i, j \in 1..Len(calls) :
          (i < j /\ calls[i].pdf_content = calls[j].pdf_content /\ Computed(i)) =>
            /\ ~Computed(j)
            /\ calls[j].grobid = "not_called"
            /\ calls[j].result.status = "loaded_from_cache")
  /\ [][\A paper_id \in DOMAIN store :
          paper_id \in DOMAIN store' /\ store'[paper_id] = store[paper_id]]_vars

\* C10 amended: a record is computed at most once per paper ID, the pair of
\* the sanitized 20-character filename prefix and the content hash: every
\* later call with identical bytes and a filename of the same sanitized
\* prefix is served from the cache and computes nothing; and a data.json that
\* exists is never overwritten.
C10_OncePerPaperId ==
  /\ [](\A i, j \in 1..Len(calls) :
          (i < j /\ SamePaper(i, j) /\ Computed(i)) =>
            /\ ~Computed(j)
            /\ calls[j].grobid = "not_called"
            /\ calls[j].result.status = "loaded_from_cache")
  /\ [][\A paper_id \in DOMAIN store :
          paper_id \in DOMAIN store' /\ store'[paper_id] = store[paper_id]]_vars

\* C10 witness: a record computed under one filename was served from the
\* cache to a call with the same bytes under another filename.
C10_Witness ==
  \E i, j \in 1..Len(calls) :
    /\ i < j /\ SamePaper(i, j) /\ Computed(i)
    /\ calls[i].filename # calls[j].filename
    /\ calls[j].result.status = "loaded_from_cache"

\* The fields every processing result is said to have.
ResultFields ==
  {"title", "abstract", "authors", "sections", "references", "keywords", "figures"}

\* A result of a failure path as the claim describes it: every list empty,
\* title and abstract the not-found sentinels.
FailureShaped(result) ==
  /\ \A key \in {"authors", "sections", "references", "keywords", "figures"} :
       result[key] = <<>>
  /\ result.title = "Title not found"
  /\ result.abstract = "Abstract not found"

\* C11: the processing result of every stored document has the fields
\* title, abstract, authors, sections, references, keywords and figures; a
\* result of status "error" (an exception in process_pdf or in the background
\* task) has every list empty and the sentinels "Title not found" and
\* "Abstract not found" for title and abstract.
C11_ResultFieldsOnEveryPath ==
  \A i \in 1..Len(documents) :
    LET result == documents[i].processing_result
    IN  /\ ResultFields \subseteq DOMAIN result
        /\ result.status = "error" => FailureShaped(result)

\* The payloads of the points of the collection that carry a paper ID.
PayloadsOf(paper_id) ==
  {points[id].payload : id \in {x \in DOMAIN points :
                                  points[x].payload.paper_id = paper_id}}

\* C12: when index_pdf has just returned paper ID X for a PDF of P pages,
\* the collection holds exactly P points whose payload paper_id is X, their
\* page numbers are 0..P-1, each carries total_pages = P, and
\* get_document_info(X) reports num_pages = P; whatever was indexed before.
C12_IndexedPagesExact ==
  (out.op = "index_pdf" /\ ~out.raised) =>
    LET X == out.value
        P == len_doc(indexed[X])
    IN  /\ Cardinality({id \in DOMAIN points : points[id].payload.paper_id = X}) = P
        /\ {payload.page_number : payload \in PayloadsOf(X)} = 0..(P - 1)
        /\ \A payload \in PayloadsOf(X) : payload.total_pages = P
        /\ get_document_info(X) # None
        /\ get_document_info(X)[1].num_pages = P

\* C13: a search that returns gives at most top_k results, in non-increasing
\* order of score, and the page_number of each result is one of the pages
\* 0..N-1 of the PDF most recently indexed under the result's paper_id.
C13_SearchResultsInRange ==
  [][\A query \in Queries, top_k \in TopKs, fault \in SearchFaults :
       (search(query, top_k, fault) /\ ~out'.raised) =>
         LET results == out'.value
         IN  /\ Len(results) <= top_k
             /\ \A i, j \in 1..Len(results) :
                  i < j => results[i].score >= results[j].score
             /\ \A i \in 1..Len(results) :
                  /\ results[i].paper_id \in DOMAIN indexed
                  /\ results[i].page_number \in
                       0..(len_doc(indexed[results[i].paper_id]) - 1)]_vars

\* The text of a section before any cut: its first two paragraphs, stripped
\* and joined by a space.
JoinedParagraphs(div) ==
  join(<<" ">>, [k \in 1..(IF Len(div.paragraphs) < 2 THEN Len(div.paragraphs) ELSE 2) |->
                   strip(div.paragraphs[k])])

\* The string of a reference before any cut: the surnames of its first two
\* authors, then its quoted title.
FullReference(bibl) ==
  LET surnames == [k \in {k \in 1..Len(bibl.authors) : k <= 2 /\ bibl.authors[k] # None} |->
                     bibl.authors[k][1]]
      names == IF 1 \in DOMAIN surnames /\ 2 \in DOMAIN surnames
               THEN surnames[1] \o <<",", " ">> \o surnames[2]
               ELSE IF 1 \in DOMAIN surnames THEN surnames[1]
               ELSE IF 2 \in DOMAIN surnames THEN surnames[2] ELSE <<>>
      title == IF bibl.title # None THEN <<"\"">> \o bibl.title[1] \o <<"\"">> ELSE <<>>
  IN  IF names # <<>> /\ title # <<>> THEN names \o <<".", " ">> \o title
      ELSE names \o title

\* A text cut at n characters: unchanged up to n, else its first n
\* characters and "...".
CutAt(text, n) ==
  IF Len(text) > n THEN SubSeq(text, 1, n) \o <<".", ".", ".">> ELSE text

\* C14: in what is extracted from a TEI document, the k-th section is the
\* k-th div with a non-blank head and its content is the joined paragraph
\* text, cut to its first 300 characters and "..." when longer than 300 and
\* unchanged otherwise; the k-th reference is the string of the k-th
\* biblStruct that has one, cut to its first 100 characters and "..." when
\* longer than 100; and there are at most 15 sections, 10 references and 10
\* authors.
C14_TruncationAndLimits ==
  parsed # None =>
    LET tei == grobid_response[1]
        result == parsed[1]
        Headed(div) == div.head # None /\ div.head[1] \notin {<<>>, <<" ">>, <<" ", " ">>}
        headed == SelectSeq(tei.divs, Headed)
        Cited(bibl) == FullReference(bibl) # <<>>
        cited == SelectSeq(tei.biblStructs, Cited)
    IN  /\ Len(result.sections) <= 15
        /\ Len(result.references) <= 10
        /\ Len(result.authors) <= 10
        /\ Len(result.sections) <= Len(headed)
        /\ \A k \in 1..Len(result.sections) :
             result.sections[k].content = CutAt(JoinedParagraphs(headed[k]), 300)
        /\ Len(result.references) <= Len(cited)
        /\ \A k \in 1..Len(result.references) :
             result.references[k] = CutAt(FullReference(cited[k]), 100)

\* C14 witness: a document with more than 15 divs was parsed into 15
\* sections whose content was cut, and one with more than 10 biblStructs into
\* 10 references that were cut.
C14_Witness ==
  /\ parsed # None
  /\ \/ /\ Len(grobid_response[1].divs) > 15
        /\ Len(parsed[1].sections) = 15
        /\ Len(parsed[1].sections[15].content) = 303
     \/ /\ Len(grobid_response[1].biblStructs) > 10
        /\ Len(parsed[1].references) = 10
        /\ Len(parsed[1].references[10]) = 103

\* C15: after a successful upload the dashboard issues at most 60 status
\* polls and sleeps one second after each poll that does not end the loop;
\* a poll answered with status completed or failed ends the loop at once,
\* showing the results or the error; a poll answered otherwise (processing,
\* an error status, no answer) is followed by the next poll, or, when it was
\* the 60th, by the still-processing notice; and no poll is issued once the
\* loop has ended.
C15_PollingBounded ==
  /\ [](/\ dash.polls <= 60
        /\ dash.pc = "polling" => dash.slept = dash.polls
        /\ dash.shown = "still_processing" => dash.pc = "done" /\ dash.polls = 60)
  /\ [][/\ \A api_up \in BOOLEAN :
             upload_tab_poll(api_up) =>
               LET answer == status_response(dash.doc_id)
                   settled == /\ api_up /\ answer.code = 200
                              /\ answer.body.status \in Settled
               IN  /\ dash'.polls = dash.polls + 1
                   /\ settled =>
                        /\ dash'.pc = "done"
                        /\ dash'.slept = dash.slept
                        /\ dash'.shown = IF answer.body.status = COMPLETED
                                         THEN "results" ELSE "error"
                   /\ ~settled =>
                        /\ dash'.slept = dash.slept + 1
                        /\ dash.polls + 1 < 60 =>
                             dash'.pc = "polling" /\ dash'.shown = "none"
                        /\ dash.polls + 1 = 60 =>
                             dash'.pc = "done" /\ dash'.shown = "still_processing"
        /\ dash.pc = "done" => (dash'.polls = dash.polls \/ dash'.polls = 0)]_vars

\* C15 witness: sixty polls found the document neither completed nor failed
\* and the still-processing notice is shown.
C15_Witness ==
  /\ dash.shown = "still_processing"
  /\ dash.polls = 60
  /\ dash.slept = 60
  /\ http = Response("status", 200)

C17_EveryUploadSettles ==
  /\ \A d \in DocIds :
       (d \in DOMAIN processing_status /\ processing_status[d] = PROCESSING)
         ~> (d \in DOMAIN processing_status /\ processing_status[d] \in Settled)
  /\ [][\A d \in DOMAIN processing_status' :
          (/\ processing_status'[d] \in Settled
           /\ d \in DOMAIN processing_status => processing_status[d] # processing_status'[d])
            => (d \in DOMAIN processing_status /\ processing_status[d] = PROCESSING)]_vars

\* C18: an upload request answered 400 leaves processing_status and
\* documents as they were before the request and schedules no task: a
\* request refused for its extension or size changes nothing, and after a
\* request refused because reading its body failed the identifier the
\* request had generated is in neither map and has no task.
C18_RejectedUploadLeavesNoTrace ==
  [][/\ \A filename \in Filenames, pdf_content \in PdfContents :
          \A size \in SizesOf(pdf_content) :
            (upload_pdf(filename, size, pdf_content) /\ reading' = reading) =>
              /\ http' = Response("upload", 400)
              /\ UNCHANGED <<processing_status, documents, background_tasks>>
     /\ \A u \in reading :
          upload_pdf_read(u, FALSE) =>
            /\ http' = Response("upload", 400)
            /\ u.doc_id \notin DOMAIN processing_status'
            /\ ~InDocuments(u.doc_id)'
            /\ \A t \in background_tasks' : t.doc_id # u.doc_id]_vars

\* C19: after a process_pdf call whose outbound GROBID call failed, a later
\* call with the same bytes and filename makes the outbound call again; it
\* is not served a stored record.
C19_FailuresNotCached ==
  \A i, j \in 1..Len(calls) :
    (i < j /\ SameSubmission(i, j) /\ calls[i].grobid = "failed") =>
      /\ calls[j].grobid # "not_called"
      /\ calls[j].result.status # "loaded_from_cache"

\* C20: in every state a document identifier has a record in `documents`
\* exactly when its status entry is completed or failed; every status
\* response of status completed carries a result and every one of status
\* failed an error; and every record listed has a status entry, so the list
\* never falls back to its default status.
C20_RecordIffSettled ==
  /\ \A d \in DocIds :
       /\ InDocuments(d) <=>
            (d \in DOMAIN processing_status /\ processing_status[d] \in Settled)
       /\ status_response(d).code = 200 =>
            /\ status_response(d).body.status = COMPLETED =>
                 "result" \in DOMAIN status_response(d).body
            /\ status_response(d).body.status = FAILED =>
                 "error" \in DOMAIN status_response(d).body
  /\ \A i \in 1..Len(documents) :
       documents[i].document_id \in DOMAIN processing_status

\* C20 witness: a completed document whose status response carries its
\* result, next to a failed one whose response carries its error.
C20_Witness ==
  \E d, e \in DocIds :
    /\ InDocuments(d) /\ processing_status[d] = COMPLETED
    /\ "result" \in DOMAIN status_response(d).body
    /\ InDocuments(e) /\ processing_status[e] = FAILED
    /\ "error" \in DOMAIN status_response(e).body

\* A load_model call has completed: both attributes are set (load_model
\* assigns the processor last, and nothing else assigns either).
LoadCompleted == colpali_model # None /\ colpali_processor # None

\* C21: in every index_pdf or search call of a ColPaliSearcher, load_model
\* is entered exactly when no earlier load_model call has completed (also
\* after a load that raised at the model or at the processor step), and a
\* call reaches its embedding statement only with the model and the
\* processor both set.
C21_LoadOnceAndComplete ==
  [][NextSearcher =>
       /\ out'.entered <=> ~LoadCompleted
       /\ out'.reached => LoadCompleted']_vars

\* The points index_pdf builds for a PDF: those of all its pages.
PointsOf(pdf_path, paper_id_arg, batch_size) ==
  LET images == pdf_to_images(pdf_path)
  IN  collect_points(images, range_step(0, Len(images), batch_size), batch_size,
                     IF paper_id_arg = None THEN paper_id_of_file(pdf_path)
                     ELSE paper_id_arg[1],
                     pdf_path)

\* C22: index_pdf writes the points of a document all or nothing. When
\* rasterization raises, or the embedding of any batch, the call raises and
\* the collection is as it was; and when a call changes the collection, it
\* has embedded every batch and the change is that of one upsert of the
\* points of all pages of a PDF.
C22_IndexAllOrNothing ==
  [][out'.op = "index_pdf" =>
       /\ out'.at \in {"pdf_to_images", "embed"}
            => out'.raised /\ points' = points
       /\ points' # points
            => /\ out'.reached /\ out'.embedded = out'.batches
               /\ \E pdf_path \in PdfPaths, paper_id_arg \in PaperIdArgs,
                     batch_size \in BatchSizes :
                    points' = upsert(points,
                                     PointsOf(pdf_path, paper_id_arg, batch_size))]_vars

\* index_pdf has raised at the embedding of a later batch, after it embedded
\* an earlier one, on a collection that holds points.
C22_Witness ==
  /\ out.op = "index_pdf" /\ out.raised /\ out.at = "embed"
  /\ out.embedded >= 1 /\ out.embedded < out.batches
  /\ points # <<>>

====
